---- MODULE Spec2Model ----
(***************************************************************************)
(* Order placement of the clothing-store backend: the MongoDB collections  *)
(* (products, inventories, carts, orders) and the request handlers that    *)
(* read and write them.  Every await of the createOrder handler is a       *)
(* separate step, so that concurrent requests interleave between the       *)
(* database operations exactly where the event loop lets them.             *)
(***************************************************************************)
EXTENDS Integers, Sequences, FiniteSets, TLC

\* ------------------------------------------------------------------ bounds
MaxQuantity == 2        \* largest quantity of an inventory record or a cart line
MaxCartLines == 2       \* cart documents ever created

WindowMs == 1           \* rateLimiter: length of a window, in clock ticks
MaxRequests == 2        \* rateLimiter: requests admitted per window
MaxTime == 3            \* clock ticks
MaxCount == 3           \* largest count of a requestCounts entry
MaxAdmitted == 3        \* requests of one IP passed on to the handlers
CleanupSize == 10000    \* rateLimiter: map size above which expired entries are dropped

Products == {"pA", "pB"}
Users == {"u1", "u2"}
Prices == {2, 3}
Requests == {1, 2}       \* POST /orders requests, possibly concurrent
AddRequests == {1, 2}    \* POST /cart requests, possibly concurrent
CreateRequests == {1, 2} \* POST /inventory requests, possibly concurrent
Roles == {"admin", "user"}
Ips == {"ip1", "ip2"}
Emails == {"a@x", "b@x"}
NoEmail == ""
EmailInputs == {NoEmail, "a@x", "A@x", "b@x"}
Tokens == {1, 2}
NoToken == 0
NoPassword == ""
Passwords == {"short", "secret1"}
\* the lifetime of a reset token, in the time unit of the model
ResetTtl == 2

VARIABLES
    products,         \* Product collection: _id -> [exists, price]
    inventory,        \* Inventory collection, in insertion order; _id = index
    cart,             \* Cart collection, in insertion order
    nextCartId,       \* _id of the next Cart document
    orders,           \* Order collection, in insertion order; _id = index
    pc,               \* createOrder: the await a request is suspended at
    reqUser,          \* createOrder: req.user.userId
    cartItems,        \* createOrder: const cartItems (populated)
    idx,              \* createOrder: position of the for-of loop in cartItems
    invDoc,           \* createOrder: const inventory (the loaded document)
    order,            \* createOrder: const order (the _id createOrderEntry returned)
    createdOrders,    \* createOrder: const createdOrders
    result,           \* createOrder: the response sent
    reported,         \* createOrder: the figures of the "Insufficient inventory" message
    statusCaller,     \* updateOrderStatus: req.user.role of the last request
    statusResult,     \* updateOrderStatus: the response to the last request
    addPc,            \* addToCart: the await a request is suspended at
    addData,          \* addToCart: userId, productId, quantity, existingCartItem
    createPc,         \* createInventory: the await a request is suspended at
    inventoryData,    \* createInventory: const inventoryData
    cartResult,       \* updateCartItem, removeFromCart, clearCart: the last response
    refused,          \* the admin-only handler that last answered 403
    requestCounts,    \* rateLimiter: const requestCounts = new Map()
    now,              \* Date.now()
    admitted,         \* per IP, the times at which a request was passed on by next()
    users,            \* User collection: email -> [exists, resetPasswordToken]
    forgotResponse,   \* forgotPassword: the last response
    userResult        \* register, resetPassword: the last response

vars == <<products, inventory, cart, nextCartId, orders, pc, reqUser, cartItems,
          idx, invDoc, order, createdOrders, result, reported, statusCaller,
          statusResult, addPc, addData, createPc, inventoryData, cartResult,
          refused, requestCounts, now, admitted, users, forgotResponse, userResult>>

dbVars == <<products, inventory, cart, nextCartId, orders>>
reqVars == <<pc, reqUser, cartItems, idx, invDoc, order, createdOrders, result, reported>>
statusVars == <<statusCaller, statusResult>>
addVars == <<addPc, addData>>
createVars == <<createPc, inventoryData>>
limiterVars == <<requestCounts, now, admitted>>
userVars == <<users, forgotResponse, userResult>>
\* the last responses of the cart and admin handlers, the limiter and the users
serviceVars == <<cartResult, refused, limiterVars, userVars>>
\* the locals of the handlers other than createOrder
handlerVars == <<statusVars, addVars, createVars, serviceVars>>

\* ------------------------------------------------------------ schema rules
\* the schema without its min: 0
QuantityValidNoMin(q) == q \in Int

\* inventorySchema.quantity: { type: Number, required: true, min: 0 }
QuantityValid(q) == q >= 0

\* the role test passing for every caller
IsAdminAnyRole(role) == TRUE

\* !(!req.user || req.user.role !== 'admin')
IsAdmin(role) == role = "admin"

\* the test never refusing a quantity
QuantityTooSmallNever(q) == FALSE

\* if (quantity < 1) return res.status(400)
QuantityTooSmall(q) == q < 1

\* ----------------------------------------------------------------- queries
NoProduct == [exists |-> FALSE, price |-> 0]
NoDoc == [id |-> 0, quantity |-> 0]
MalformedId == 0         \* an :id that is not an ObjectId
NoReport == [productId |-> "", available |-> 0, requested |-> 0]
NoData == [productId |-> "", quantity |-> 0]
NoEntry == [count |-> 0, resetTime |-> 0]      \* requestCounts.get(ip) === undefined
NoUser == [exists |-> FALSE, password |-> <<>>, resetPasswordToken |-> 0,
           resetPasswordExpires |-> 0]
NoResponse == [status |-> 0, message |-> "", resetToken |-> 0]
NoAdd == [userId |-> "", productId |-> "", quantity |-> 0, existing |-> NoDoc]

\* Inventory.findOne({ productId }): _id of the first matching record, 0 for null
FindInventory(p) ==
    IF \E i \in 1..Len(inventory) : inventory[i].productId = p
    THEN CHOOSE i \in 1..Len(inventory) :
            /\ inventory[i].productId = p
            /\ \A j \in 1..(i - 1) : inventory[j].productId # p
    ELSE 0

\* the collection without its unique index
UniqueProductIdNone(inv) == TRUE

\* inventorySchema.productId: { unique: true }
UniqueProductId(inv) ==
    \A i, j \in 1..Len(inv) : inv[i].productId = inv[j].productId => i = j

IsUserLine(u, line) == line.userId = u

\* Cart.find({ userId })
UserCart(u) == SelectSeq(cart, LAMBDA line : IsUserLine(u, line))

\* .populate('productId'): the referenced product, null when it was deleted
Populate(line) ==
    [id |-> line.id, productId |-> line.productId, quantity |-> line.quantity,
     product |-> IF products[line.productId].exists THEN products[line.productId]
                 ELSE NoProduct]

PopulateAll(lines) == [k \in 1..Len(lines) |-> Populate(lines[k])]

\* the loop taking every line, stale or not
NextSurvivingNoSkip(items, i) == i

\* for (const cartItem of cartItems) { if (!product) continue; ... }:
\* the first position at or after i whose product is not null
RECURSIVE NextSurviving(_, _)
NextSurviving(items, i) ==
    IF i > Len(items) THEN i
    ELSE IF items[i].product.exists THEN i
    ELSE NextSurviving(items, i + 1)

\* the unit price taken for the total
TotalPriceUnit(item) == item.product.price

\* const totalPrice = product.price * cartItem.quantity
TotalPrice(item) == item.product.price * item.quantity

\* the comparison only finding an empty stock short
InsufficientIfEmpty(doc, item) == doc.quantity < 1

\* the comparison never finding the stock short
InsufficientNever(doc, item) == FALSE

\* inventory.quantity < cartItem.quantity
Insufficient(doc, item) == doc.quantity < item.quantity

\* Available: ${inventory ? inventory.quantity : 0}, Requested: ${cartItem.quantity}
InsufficientReport(doc, item) ==
    [productId |-> item.productId, available |-> doc.quantity, requested |-> item.quantity]

\* ------------------------------------------------------------------- Init
InitialPrice == [p \in Products |-> IF p = "pA" THEN 3 ELSE 2]

\* The database as the admin endpoints have seeded it: both products exist,
\* product pA is stocked and product pB has no inventory record yet.
InitialStock == [p \in Products |-> IF p = "pA" THEN MaxQuantity ELSE 0]

Init ==
    /\ products = [p \in Products |-> [exists |-> TRUE, price |-> InitialPrice[p]]]
    /\ inventory = <<[productId |-> "pA", quantity |-> InitialStock["pA"]]>>
    /\ cart = <<>>
    /\ nextCartId = 1
    /\ orders = <<>>
    /\ pc = [r \in Requests |-> "idle"]
    /\ reqUser = [r \in Requests |-> "u1"]
    /\ cartItems = [r \in Requests |-> <<>>]
    /\ idx = [r \in Requests |-> 0]
    /\ invDoc = [r \in Requests |-> NoDoc]
    /\ order = [r \in Requests |-> 0]
    /\ createdOrders = [r \in Requests |-> <<>>]
    /\ result = [r \in Requests |-> "none"]
    /\ reported = [r \in Requests |-> NoReport]
    /\ statusCaller = "admin"
    /\ statusResult = "none"
    /\ addPc = [c \in AddRequests |-> "idle"]
    /\ addData = [c \in AddRequests |-> NoAdd]
    /\ createPc = [a \in CreateRequests |-> "idle"]
    /\ inventoryData = [a \in CreateRequests |-> NoData]
    /\ cartResult = "none"
    /\ refused = "none"
    /\ requestCounts = [ip \in Ips |-> NoEntry]
    /\ now = 0
    /\ admitted = [ip \in Ips |-> <<>>]
    /\ users = [email \in Emails |-> NoUser]
    /\ forgotResponse = NoResponse
    /\ userResult = "none"

\* ------------------------------------------------- POST /orders (createOrder)
IsFailure(res) == res \in {"EmptyCart", "InsufficientStock", "ServerError"}

\* return res.status(...).json(...) / next(error): the response res, with the
\* figures rep in its message, is sent to the user u and the handler's locals
\* are gone
Reply(r, u, res, rep) ==
    /\ pc' = [pc EXCEPT ![r] = "done"]
    /\ result' = [result EXCEPT ![r] = res]
    /\ reported' = [reported EXCEPT ![r] = rep]
    /\ reqUser' = [reqUser EXCEPT ![r] = u]
    /\ cartItems' = [cartItems EXCEPT ![r] = <<>>]
    /\ idx' = [idx EXCEPT ![r] = 0]
    /\ invDoc' = [invDoc EXCEPT ![r] = NoDoc]
    /\ order' = [order EXCEPT ![r] = 0]
    /\ createdOrders' = [createdOrders EXCEPT ![r] = <<>>]

\* a response whose message carries no figures
Respond(r, u, res) == Reply(r, u, res, NoReport)

\* ReadCart without the length check: an empty cart enters the loop
ReadCartNoEmptyCheck(r, u) ==
    /\ pc[r] = "idle"
    /\ \A r2 \in 1..(r - 1) : pc[r2] # "idle"
    /\ LET items == PopulateAll(UserCart(u))
           first == NextSurviving(items, 1)
       IN /\ reqUser' = [reqUser EXCEPT ![r] = u]
          /\ cartItems' = [cartItems EXCEPT ![r] = items]
          /\ idx' = [idx EXCEPT ![r] = first]
          /\ pc' = [pc EXCEPT ![r] = IF first > Len(items) THEN "clear" ELSE "check"]
          /\ UNCHANGED <<result, reported, invDoc, order, createdOrders>>
    /\ UNCHANGED <<dbVars, handlerVars>>

\* const cartItems = await Cart.find({ userId }).populate('productId');
\* an empty cart answers 400, otherwise the loop starts
ReadCart(r, u) ==
    /\ pc[r] = "idle"
    /\ \A r2 \in 1..(r - 1) : pc[r2] # "idle"     \* request slots are taken in order
    /\ LET items == PopulateAll(UserCart(u))
           first == NextSurviving(items, 1)
       IN IF Len(items) = 0
          THEN Respond(r, u, "EmptyCart")
          ELSE /\ reqUser' = [reqUser EXCEPT ![r] = u]
               /\ cartItems' = [cartItems EXCEPT ![r] = items]
               /\ idx' = [idx EXCEPT ![r] = first]
               /\ pc' = [pc EXCEPT ![r] = IF first > Len(items) THEN "clear" ELSE "check"]
               /\ UNCHANGED <<result, reported, invDoc, order, createdOrders>>
    /\ UNCHANGED <<dbVars, handlerVars>>

\* CheckInventory emptying the user's cart before it answers 400
CheckInventoryClearsCart(r) ==
    /\ pc[r] = "check"
    /\ LET item == cartItems[r][idx[r]]
           i == FindInventory(item.productId)
           doc == IF i = 0 THEN NoDoc ELSE [id |-> i, quantity |-> inventory[i].quantity]
       IN IF i = 0 \/ Insufficient(doc, item)
          THEN /\ Respond(r, reqUser[r], "InsufficientStock")
               /\ cart' = SelectSeq(cart, LAMBDA line : ~IsUserLine(reqUser[r], line))
          ELSE /\ invDoc' = [invDoc EXCEPT ![r] = doc]
               /\ pc' = [pc EXCEPT ![r] = "create"]
               /\ UNCHANGED <<cart, result, reported, reqUser, cartItems, idx, order, createdOrders>>
    /\ UNCHANGED <<products, inventory, nextCartId, orders, handlerVars>>

\* const inventory = await Inventory.findOne({ productId: product._id });
\* if (!inventory || inventory.quantity < cartItem.quantity) return 400
CheckInventory(r) ==
    /\ pc[r] = "check"
    /\ LET item == cartItems[r][idx[r]]
           i == FindInventory(item.productId)
           doc == IF i = 0 THEN NoDoc ELSE [id |-> i, quantity |-> inventory[i].quantity]
       IN IF i = 0 \/ Insufficient(doc, item)
          THEN Reply(r, reqUser[r], "InsufficientStock", InsufficientReport(doc, item))
          ELSE /\ invDoc' = [invDoc EXCEPT ![r] = doc]
               /\ pc' = [pc EXCEPT ![r] = "create"]
               /\ UNCHANGED <<result, reported, reqUser, cartItems, idx, order, createdOrders>>
    /\ UNCHANGED <<dbVars, handlerVars>>

\* orderSchema: quantity min 1, totalPrice min 0
OrderValid(rec) == rec.quantity >= 1 /\ rec.totalPrice >= 0

\* const orderData = { userId, productId, quantity, totalPrice, status: 'pending' }
OrderData(r) ==
    LET item == cartItems[r][idx[r]]
    IN [userId |-> reqUser[r], productId |-> item.productId,
        quantity |-> item.quantity, totalPrice |-> TotalPrice(item),
        status |-> "pending"]

\* createOrderEntry resolving without the document having been stored
CreateOrderEntryNotStored(r) ==
    /\ pc[r] = "create"
    /\ order' = [order EXCEPT ![r] = Len(orders) + 1]
    /\ pc' = [pc EXCEPT ![r] = "save"]
    /\ UNCHANGED <<result, reported, reqUser, cartItems, idx, invDoc, createdOrders>>
    /\ UNCHANGED <<dbVars, handlerVars>>

\* const order = await createOrderEntry(orderData);
CreateOrderEntry(r) ==
    /\ pc[r] = "create"
    /\ IF OrderValid(OrderData(r))
       THEN /\ orders' = Append(orders, OrderData(r))
            /\ order' = [order EXCEPT ![r] = Len(orders) + 1]
            /\ pc' = [pc EXCEPT ![r] = "save"]
            /\ UNCHANGED <<result, reported, reqUser, cartItems, idx, invDoc, createdOrders>>
       ELSE /\ Respond(r, reqUser[r], "ServerError")
            /\ UNCHANGED orders
    /\ UNCHANGED <<products, inventory, cart, nextCartId, handlerVars>>

\* inventory.quantity -= cartItem.quantity; await inventory.save();
\* the document loaded by CheckInventory is written back: $set quantity by _id.
\* Then createdOrders.push(populatedOrder) and the loop moves on.
SaveInventory(r) ==
    /\ pc[r] = "save"
    /\ LET item == cartItems[r][idx[r]]
           q == invDoc[r].quantity - item.quantity
           next == NextSurviving(cartItems[r], idx[r] + 1)
       IN IF QuantityValid(q)
          THEN /\ inventory' = [inventory EXCEPT ![invDoc[r].id].quantity = q]
               /\ createdOrders' = [createdOrders EXCEPT ![r] = Append(@, order[r])]
               /\ idx' = [idx EXCEPT ![r] = next]
               /\ pc' = [pc EXCEPT ![r] = IF next > Len(cartItems[r]) THEN "clear" ELSE "check"]
               /\ invDoc' = [invDoc EXCEPT ![r] = NoDoc]
               /\ order' = [order EXCEPT ![r] = 0]
               /\ UNCHANGED <<result, reported, reqUser, cartItems>>
          ELSE /\ Respond(r, reqUser[r], "ServerError")
               /\ UNCHANGED inventory
    /\ UNCHANGED <<products, cart, nextCartId, orders, handlerVars>>

\* ClearCart deleting only the lines the request read: Cart.deleteMany({ _id: { $in: ids } })
ClearCartOnlyRead(r) ==
    /\ pc[r] = "clear"
    /\ cart' = SelectSeq(cart, LAMBDA line :
                   ~\E k \in 1..Len(cartItems[r]) : cartItems[r][k].id = line.id)
    /\ Respond(r, reqUser[r], "Created")
    /\ UNCHANGED <<products, inventory, nextCartId, orders, handlerVars>>

\* await Cart.deleteMany({ userId }); res.status(201).json(...)
ClearCart(r) ==
    /\ pc[r] = "clear"
    /\ cart' = SelectSeq(cart, LAMBDA line : ~IsUserLine(reqUser[r], line))
    /\ Respond(r, reqUser[r], "Created")
    /\ UNCHANGED <<products, inventory, nextCartId, orders, handlerVars>>

\* catch (error) { next(error); }: the pending database operation rejects
\* without effect and the request ends with 500
DbError(r) ==
    /\ pc[r] \in {"check", "create", "save", "clear"}
    /\ Respond(r, reqUser[r], "ServerError")
    /\ UNCHANGED <<dbVars, handlerVars>>

CreateOrderStep(r) ==
    \/ \E u \in Users : ReadCart(r, u)
    \/ CheckInventory(r)
    \/ CreateOrderEntry(r)
    \/ SaveInventory(r)
    \/ ClearCart(r)

\* ------------------------------------------------------- POST /cart (addToCart)
\* quantity < 1 answers 400, a missing product 404; an existing line of the
\* user for the product gets the quantity added, otherwise a line is created
AddToCart(u, p, q) ==
    /\ q >= 1
    /\ products[p].exists
    /\ IF \E k \in 1..Len(cart) : cart[k].userId = u /\ cart[k].productId = p
       THEN LET k == CHOOSE k \in 1..Len(cart) :
                        /\ cart[k].userId = u /\ cart[k].productId = p
                        /\ \A j \in 1..(k - 1) : ~(cart[j].userId = u /\ cart[j].productId = p)
            IN /\ cart[k].quantity + q <= MaxQuantity
               /\ cart' = [cart EXCEPT ![k].quantity = @ + q]
               /\ UNCHANGED nextCartId
       ELSE /\ nextCartId <= MaxCartLines
            /\ cart' = Append(cart, [id |-> nextCartId, userId |-> u,
                                     productId |-> p, quantity |-> q])
            /\ nextCartId' = nextCartId + 1
    /\ UNCHANGED <<products, inventory, orders, reqVars, handlerVars>>

\* Cart.findOne({ userId, productId }): position of the first matching line, 0 for null
FindCartLine(u, p) ==
    IF \E k \in 1..Len(cart) : cart[k].userId = u /\ cart[k].productId = p
    THEN CHOOSE k \in 1..Len(cart) :
            /\ cart[k].userId = u /\ cart[k].productId = p
            /\ \A j \in 1..(k - 1) : ~(cart[j].userId = u /\ cart[j].productId = p)
    ELSE 0

\* POST /cart, await by await. First the checks (400 for a quantity below 1),
\* Product.findById and const existingCartItem = await Cart.findOne({ userId, productId })
FindCartItem(c, u, p, q) ==
    /\ addPc[c] \notin {"save", "create"}
    /\ \A c2 \in 1..(c - 1) : addPc[c2] \in {"save", "create"}   \* request slots are taken in order
    /\ IF QuantityTooSmall(q)
       THEN /\ addPc' = [addPc EXCEPT ![c] = "rejected"]
            /\ addData' = [addData EXCEPT ![c] = NoAdd]
       ELSE /\ products[p].exists
            /\ LET k == FindCartLine(u, p)
               IN /\ IF k = 0
                     THEN nextCartId + Cardinality({c2 \in AddRequests : addPc[c2] = "create"})
                              <= MaxCartLines
                     ELSE cart[k].quantity + q <= MaxQuantity
                  /\ addData' = [addData EXCEPT ![c] =
                         [userId |-> u, productId |-> p, quantity |-> q,
                          existing |-> IF k = 0 THEN NoDoc
                                       ELSE [id |-> cart[k].id, quantity |-> cart[k].quantity]]]
                  /\ addPc' = [addPc EXCEPT ![c] = IF k = 0 THEN "create" ELSE "save"]
    /\ UNCHANGED <<dbVars, reqVars, statusVars, createVars, serviceVars>>

\* existingCartItem.quantity += quantity; await existingCartItem.save():
\* the loaded document is written back, $set quantity by _id; the save of a
\* document that is gone rejects
SaveCartItem(c) ==
    /\ addPc[c] = "save"
    /\ IF \E k \in 1..Len(cart) : cart[k].id = addData[c].existing.id
       THEN /\ cart' = [k \in 1..Len(cart) |->
                          IF cart[k].id = addData[c].existing.id
                          THEN [cart[k] EXCEPT !.quantity =
                                    addData[c].existing.quantity + addData[c].quantity]
                          ELSE cart[k]]
            /\ addPc' = [addPc EXCEPT ![c] = "ok"]
       ELSE /\ addPc' = [addPc EXCEPT ![c] = "failed"]
            /\ UNCHANGED cart
    /\ addData' = [addData EXCEPT ![c] = NoAdd]
    /\ UNCHANGED <<products, inventory, nextCartId, orders, reqVars, statusVars, createVars, serviceVars>>

\* const cartItem = await createCart({ userId, productId, quantity }):
\* a new document; the schema has no index over (userId, productId)
CreateCartItem(c) ==
    /\ addPc[c] = "create"
    /\ cart' = Append(cart, [id |-> nextCartId, userId |-> addData[c].userId,
                             productId |-> addData[c].productId,
                             quantity |-> addData[c].quantity])
    /\ nextCartId' = nextCartId + 1
    /\ addPc' = [addPc EXCEPT ![c] = "ok"]
    /\ addData' = [addData EXCEPT ![c] = NoAdd]
    /\ UNCHANGED <<products, inventory, orders, reqVars, statusVars, createVars, serviceVars>>

AddToCartStep(c) ==
    \/ \E u \in Users, p \in Products, q \in 0..MaxQuantity : FindCartItem(c, u, p, q)
    \/ SaveCartItem(c)
    \/ CreateCartItem(c)

\* -------------------------------- PUT /cart/:itemId, DELETE /cart/:itemId, DELETE /cart
\* Cart.findOne({ _id: itemId }): the owner is not part of the query
FindOwnLineAnyOwner(u, id) ==
    IF \E k \in 1..Len(cart) : cart[k].id = id
    THEN CHOOSE k \in 1..Len(cart) : cart[k].id = id
    ELSE 0

\* Cart.findOne({ _id: itemId, userId }): position of the line, 0 for null
FindOwnLine(u, id) ==
    IF \E k \in 1..Len(cart) : cart[k].id = id /\ cart[k].userId = u
    THEN CHOOSE k \in 1..Len(cart) : cart[k].id = id /\ cart[k].userId = u
    ELSE 0

\* updateCartItem: 400 for a malformed id, 400 for a quantity below 1, 404
\* when the user has no such line, else cartItem.quantity = quantity; save()
UpdateCartItem(u, id, q) ==
    /\ IF id = MalformedId
       THEN cartResult' = "InvalidId" /\ UNCHANGED cart
       ELSE IF QuantityTooSmall(q)
       THEN cartResult' = "BadQuantity" /\ UNCHANGED cart
       ELSE IF FindOwnLine(u, id) = 0
       THEN cartResult' = "NotFound" /\ UNCHANGED cart
       ELSE /\ cart' = [cart EXCEPT ![FindOwnLine(u, id)].quantity = q]
            /\ cartResult' = "Ok"
    /\ UNCHANGED <<products, inventory, nextCartId, orders, reqVars, statusVars,
                   addVars, createVars, refused, limiterVars, userVars>>

\* removeFromCart: 400 for a malformed id, then
\* Cart.findOneAndDelete({ _id: itemId, userId }), 404 for null
RemoveFromCart(u, id) ==
    /\ IF id = MalformedId
       THEN cartResult' = "InvalidId" /\ UNCHANGED cart
       ELSE IF FindOwnLine(u, id) = 0
       THEN cartResult' = "NotFound" /\ UNCHANGED cart
       ELSE /\ cart' = SelectSeq(cart, LAMBDA line : ~(line.id = id /\ line.userId = u))
            /\ cartResult' = "Ok"
    /\ UNCHANGED <<products, inventory, nextCartId, orders, reqVars, statusVars,
                   addVars, createVars, refused, limiterVars, userVars>>

\* clearCart: Cart.deleteMany({ userId }), 200 with the deletedCount
ClearCartHandler(u) ==
    /\ cart' = SelectSeq(cart, LAMBDA line : ~IsUserLine(u, line))
    /\ cartResult' = "Ok"
    /\ UNCHANGED <<products, inventory, nextCartId, orders, reqVars, statusVars,
                   addVars, createVars, refused, limiterVars, userVars>>

\* ------------------------------------------------------------ catalog (admin)
\* UpdateProduct also recomputing the totals of the product's orders
UpdateProductRepricing(p, price) ==
    /\ products[p].exists
    /\ products' = [products EXCEPT ![p].price = price]
    /\ orders' = [i \in 1..Len(orders) |->
                    IF orders[i].productId = p
                    THEN [orders[i] EXCEPT !.totalPrice = price * orders[i].quantity]
                    ELSE orders[i]]
    /\ UNCHANGED <<inventory, cart, nextCartId, reqVars, handlerVars>>

\* Product.findByIdAndUpdate(id, req.body): the price is replaced
UpdateProduct(p, price) ==
    /\ products[p].exists
    /\ products' = [products EXCEPT ![p].price = price]
    /\ UNCHANGED <<inventory, cart, nextCartId, orders, reqVars, handlerVars>>

\* Product.findByIdAndDelete(id)
DeleteProduct(p) ==
    /\ products[p].exists
    /\ products' = [products EXCEPT ![p] = NoProduct]
    /\ UNCHANGED <<inventory, cart, nextCartId, orders, reqVars, handlerVars>>

\* ---------------------------------------------------------- inventory (admin)
\* POST /inventory: 404 without the product, 400 when a record exists, else
\* new Inventory({ productId, quantity }).save() under the schema's validators
CreateInventory(p, q) ==
    /\ products[p].exists
    /\ FindInventory(p) = 0
    /\ QuantityValid(q)
    /\ UniqueProductId(Append(inventory, [productId |-> p, quantity |-> q]))
    /\ inventory' = Append(inventory, [productId |-> p, quantity |-> q])
    /\ UNCHANGED <<products, cart, nextCartId, orders, reqVars, handlerVars>>

\* POST /inventory, await by await. First Product.findById and
\* Inventory.findOne({ productId }): without the product (404) or with a record
\* (400) the request ends, otherwise it goes on to the insert
FindExistingInventory(a, p, q) ==
    /\ createPc[a] # "insert"
    /\ \A a2 \in 1..(a - 1) : createPc[a2] = "insert"    \* request slots are taken in order
    /\ products[p].exists
    /\ FindInventory(p) = 0
    /\ createPc' = [createPc EXCEPT ![a] = "insert"]
    /\ inventoryData' = [inventoryData EXCEPT ![a] = [productId |-> p, quantity |-> q]]
    /\ UNCHANGED <<dbVars, reqVars, statusVars, addVars, serviceVars>>

\* const inventory = await createInventoryEntry(inventoryData): the document
\* is validated and inserted under the unique index; a rejection goes to
\* next(error)
CreateInventoryEntry(a) ==
    /\ createPc[a] = "insert"
    /\ IF ~QuantityValid(inventoryData[a].quantity)
       THEN /\ createPc' = [createPc EXCEPT ![a] = "invalid"]
            /\ UNCHANGED inventory
       ELSE IF ~UniqueProductId(Append(inventory, inventoryData[a]))
       THEN /\ createPc' = [createPc EXCEPT ![a] = "duplicate"]
            /\ UNCHANGED inventory
       ELSE /\ createPc' = [createPc EXCEPT ![a] = "created"]
            /\ inventory' = Append(inventory, inventoryData[a])
    /\ inventoryData' = [inventoryData EXCEPT ![a] = NoData]
    /\ UNCHANGED <<products, cart, nextCartId, orders, reqVars, statusVars, addVars, serviceVars>>

\* PUT /inventory/:id: Inventory.findByIdAndUpdate(id, req.body, { runValidators: true });
\* a productId in the body must name an existing product. A body without a
\* productId (or a quantity) is the update with the record's own value.
UpdateInventory(i, p, q) ==
    /\ i \in 1..Len(inventory)
    /\ p = inventory[i].productId \/ products[p].exists
    /\ QuantityValid(q)
    /\ UniqueProductId([inventory EXCEPT ![i] = [productId |-> p, quantity |-> q]])
    /\ inventory' = [inventory EXCEPT ![i] = [productId |-> p, quantity |-> q]]
    /\ UNCHANGED <<products, cart, nextCartId, orders, reqVars, handlerVars>>

\* PATCH /inventory/product/:productId: quantity < 0 answers 400, then
\* Inventory.findOneAndUpdate({ productId }, { quantity }, { runValidators: true })
UpdateInventoryQuantity(p, q) ==
    /\ ~(q < 0)
    /\ products[p].exists
    /\ FindInventory(p) # 0
    /\ QuantityValid(q)
    /\ inventory' = [inventory EXCEPT ![FindInventory(p)].quantity = q]
    /\ UNCHANGED <<products, cart, nextCartId, orders, reqVars, handlerVars>>

\* ---------------------------------------------------------------- rateLimiter
\* the limit never counting as exceeded
LimitExceededNever(count) == FALSE

\* entry.count > maxRequests
LimitExceeded(count) == count > MaxRequests

\* now - entry.resetTime > windowMs
Expired(entry) == now - entry.resetTime > WindowMs

\* if (requestCounts.size > 10000) the expired entries are deleted
Cleanup(counts) ==
    IF Cardinality({ip \in Ips : counts[ip] # NoEntry}) > CleanupSize
    THEN [ip \in Ips |-> IF counts[ip] # NoEntry /\ Expired(counts[ip])
                          THEN NoEntry ELSE counts[ip]]
    ELSE counts

\* next(): the request goes on to the routes and their handler
PassOn(ip) == admitted' = [admitted EXCEPT ![ip] = Append(@, now)]

\* the middleware rateLimiter() returns, for a request from ip
RateLimiter(ip) ==
    /\ LET counts == Cleanup(requestCounts)
           entry == counts[ip]
       IN IF entry = NoEntry \/ Expired(entry)
          THEN /\ requestCounts' = [counts EXCEPT ![ip] = [count |-> 1, resetTime |-> now]]
               /\ PassOn(ip)
          ELSE /\ entry.count < MaxCount
               /\ requestCounts' = [counts EXCEPT ![ip].count = entry.count + 1]
               /\ IF LimitExceeded(entry.count + 1)
                  THEN UNCHANGED admitted          \* res.status(429)
                  ELSE PassOn(ip)
    /\ UNCHANGED <<dbVars, reqVars, statusVars, addVars, createVars, cartResult,
                   refused, now, userVars>>

\* the clock advances
Tick ==
    /\ now < MaxTime
    /\ now' = now + 1
    /\ UNCHANGED <<dbVars, reqVars, statusVars, addVars, createVars, cartResult,
                   refused, requestCounts, admitted, userVars>>

\* the middleware the server mounts before the routes, in order
AppMiddleware == <<"express.json", "express.urlencoded", "logger", "analyticsMiddleware">>

\* a request from ip through the server's middleware chain to the routes
AppRequest(ip) ==
    IF \E i \in 1..Len(AppMiddleware) : AppMiddleware[i] = "rateLimiter"
    THEN RateLimiter(ip)
    ELSE /\ Len(admitted[ip]) < MaxAdmitted
         /\ PassOn(ip)
         /\ UNCHANGED <<dbVars, reqVars, statusVars, addVars, createVars, cartResult,
                        refused, requestCounts, now, userVars>>

\* ------------------------------------------------------ the admin-only handlers
\* if (!req.user || req.user.role !== 'admin') return res.status(403): the
\* handler op refuses the caller
Refuse(op) ==
    /\ refused' = op
    /\ UNCHANGED <<dbVars, reqVars, statusVars, addVars, createVars, cartResult,
                   limiterVars, userVars>>

\* the product p has never been stored: nothing refers to it
Unreferenced(p) ==
    /\ \A k \in 1..Len(cart) : cart[k].productId # p
    /\ \A i \in 1..Len(inventory) : inventory[i].productId # p
    /\ \A i \in 1..Len(orders) : orders[i].productId # p
    /\ \A r \in Requests : \A k \in 1..Len(cartItems[r]) : cartItems[r][k].productId # p
    /\ \A c \in AddRequests : addData[c].productId # p
    /\ \A a \in CreateRequests : inventoryData[a].productId # p

\* new Product(req.body).save(): a product under a new _id
CreateProduct(p, price) ==
    /\ ~products[p].exists
    /\ Unreferenced(p)
    /\ products' = [products EXCEPT ![p] = [exists |-> TRUE, price |-> price]]
    /\ UNCHANGED <<inventory, cart, nextCartId, orders, reqVars, handlerVars>>

CreateProductRequest(role, p, price) ==
    IF IsAdmin(role) THEN CreateProduct(p, price) ELSE Refuse("createProduct")

\* updateProduct without its role test
UpdateProductRequestUngated(role, p, price) == UpdateProduct(p, price)

UpdateProductRequest(role, p, price) ==
    IF IsAdmin(role) THEN UpdateProduct(p, price) ELSE Refuse("updateProduct")

DeleteProductRequest(role, p) ==
    IF IsAdmin(role) THEN DeleteProduct(p) ELSE Refuse("deleteProduct")

\* getAllInventory: Inventory.find(), a read
GetAllInventory(role) ==
    IF IsAdmin(role) THEN UNCHANGED vars ELSE Refuse("getAllInventory")

CreateInventoryRequest(role, p, q) ==
    IF IsAdmin(role) THEN CreateInventory(p, q) ELSE Refuse("createInventory")

UpdateInventoryRequest(role, i, p, q) ==
    IF IsAdmin(role) THEN UpdateInventory(i, p, q) ELSE Refuse("updateInventory")

UpdateInventoryQuantityRequest(role, p, q) ==
    IF IsAdmin(role) THEN UpdateInventoryQuantity(p, q) ELSE Refuse("updateInventoryQuantity")

\* getAllOrders: Order.find(query), a read
GetAllOrders(role) ==
    IF IsAdmin(role) THEN UNCHANGED vars ELSE Refuse("getAllOrders")

\* --------------------------------- PATCH /orders/:id/status (updateOrderStatus)
NoStatus == ""           \* a body without a status
StatusInputs == {"pending", "processing", "shipped", "delivered", "cancelled",
                 "refunded", NoStatus}

\* the handler's list with one more entry
validStatusesWide == {"pending", "processing", "shipped", "delivered", "cancelled", "refunded"}

\* const validStatuses = ['pending', 'processing', 'shipped', 'delivered', 'cancelled']
validStatuses == {"pending", "processing", "shipped", "delivered", "cancelled"}

\* orderSchema.status: enum, applied by runValidators
StatusEnum(status) ==
    status \in {"pending", "processing", "shipped", "delivered", "cancelled"}

\* the handler returning a cancelled order's quantity to the stock
UpdateOrderStatusRestocking(role, id, status) ==
    /\ statusCaller' = role
    /\ IF IsAdmin(role) /\ id \in 1..Len(orders) /\ status \in validStatuses
       THEN /\ orders' = [orders EXCEPT ![id].status = status]
            /\ statusResult' = "Ok"
            /\ inventory' =
                  IF status = "cancelled" /\ FindInventory(orders[id].productId) # 0
                  THEN [inventory EXCEPT ![FindInventory(orders[id].productId)].quantity =
                            @ + orders[id].quantity]
                  ELSE inventory
       ELSE /\ statusResult' = "Refused"
            /\ UNCHANGED <<orders, inventory>>
    /\ UNCHANGED <<products, cart, nextCartId, reqVars, addVars, createVars, serviceVars>>

\* the handler: 403, 400 for a malformed id, 400 for a status outside the list,
\* then Order.findByIdAndUpdate(id, { status }, { runValidators: true }): a
\* validation error, 404 for an unknown id, else the status is replaced
UpdateOrderStatus(role, id, status) ==
    /\ statusCaller' = role
    /\ IF ~IsAdmin(role)
       THEN statusResult' = "Forbidden" /\ UNCHANGED orders
       ELSE IF id = MalformedId
       THEN statusResult' = "InvalidId" /\ UNCHANGED orders
       ELSE IF status = NoStatus \/ status \notin validStatuses
       THEN statusResult' = "InvalidStatus" /\ UNCHANGED orders
       ELSE IF ~StatusEnum(status)
       THEN statusResult' = "ServerError" /\ UNCHANGED orders
       ELSE IF id \notin 1..Len(orders)
       THEN statusResult' = "NotFound" /\ UNCHANGED orders
       ELSE /\ orders' = [orders EXCEPT ![id].status = status]
            /\ statusResult' = "Ok"
    /\ UNCHANGED <<products, inventory, cart, nextCartId, reqVars, addVars, createVars, serviceVars>>

\* ------------------------------------------------------------------ users
\* email.toLowerCase()
ToLowerCase(email) == IF email = "A@x" THEN "a@x" ELSE email

\* crypto.createHash('sha256').update(token).digest('hex')
Sha256(token) == token + 10

\* await bcrypt.hash(password, saltRounds)
BcryptHash(password) == <<"bcrypt", password>>

\* password.length
PasswordLength(password) == IF password = "secret1" THEN 7 ELSE IF password = "short" THEN 5 ELSE 0

\* POST /users/register: an email already registered answers 400; a body
\* without an email fails in createUser (email is required) and answers 500
Register(email, password) ==
    /\ LET e == ToLowerCase(email)
       IN IF email = NoEmail
          THEN userResult' = "ServerError" /\ UNCHANGED users
          ELSE IF users[e].exists
          THEN userResult' = "Exists" /\ UNCHANGED users
          ELSE /\ users' = [users EXCEPT ![e] =
                              [exists |-> TRUE, password |-> BcryptHash(password),
                               resetPasswordToken |-> 0, resetPasswordExpires |-> 0]]
               /\ userResult' = "Registered"
    /\ UNCHANGED <<dbVars, reqVars, statusVars, addVars, createVars, cartResult,
                   refused, limiterVars, forgotResponse>>

\* the body of the 200 response of forgotPassword for the user found by
\* User.findOne (NoUser for null); data.resetUrl carries the same resetToken
ForgotPasswordResponse(user, resetToken) ==
    IF ~user.exists
    THEN [status |-> 200,
          message |-> "If an account with that email exists, a password reset link has been sent.",
          resetToken |-> NoToken]
    ELSE [status |-> 200,
          message |-> "Password reset token generated successfully",
          resetToken |-> resetToken]

\* POST /users/forgot-password, resetToken being crypto.randomBytes(32): a
\* value no stored token was made from
ForgotPassword(email, resetToken) ==
    /\ \A e \in Emails : users[e].resetPasswordToken # Sha256(resetToken)
    /\ IF email = NoEmail
       THEN /\ forgotResponse' = [status |-> 400, message |-> "Email is required",
                                  resetToken |-> NoToken]
            /\ UNCHANGED users
       ELSE LET e == ToLowerCase(email)
                user == users[e]
            IN /\ forgotResponse' = ForgotPasswordResponse(user, resetToken)
               /\ users' = IF user.exists
                           THEN [users EXCEPT ![e].resetPasswordToken = Sha256(resetToken),
                                              ![e].resetPasswordExpires = now + ResetTtl]
                           ELSE users
    /\ UNCHANGED <<dbVars, reqVars, statusVars, addVars, createVars, cartResult,
                   refused, limiterVars, userResult>>

\* catch (error): a database operation of forgotPassword rejects; the stored
\* reset token of the user, if any, is cleared and the request ends with 500
ForgotPasswordError(email) ==
    /\ email # NoEmail
    /\ LET e == ToLowerCase(email)
       IN users' = IF users[e].exists
                   THEN [users EXCEPT ![e].resetPasswordToken = 0,
                                      ![e].resetPasswordExpires = 0]
                   ELSE users
    /\ forgotResponse' = [status |-> 500, message |-> "Internal Server Error",
                          resetToken |-> NoToken]
    /\ UNCHANGED <<dbVars, reqVars, statusVars, addVars, createVars, cartResult,
                   refused, limiterVars, userResult>>

\* POST /users/reset-password
ResetPassword(token, password) ==
    /\ IF token = NoToken \/ password = NoPassword
       THEN userResult' = "BadRequest" /\ UNCHANGED users
       ELSE LET found == {e \in Emails : /\ users[e].exists
                                         /\ users[e].resetPasswordToken = Sha256(token)
                                         /\ users[e].resetPasswordExpires > now}
            IN IF found = {}
               THEN userResult' = "InvalidToken" /\ UNCHANGED users
               ELSE IF PasswordLength(password) < 6
               THEN userResult' = "PasswordTooShort" /\ UNCHANGED users
               ELSE LET e == CHOOSE e \in found : TRUE
                    IN /\ users' = [users EXCEPT ![e].password = BcryptHash(password),
                                                 ![e].resetPasswordToken = 0,
                                                 ![e].resetPasswordExpires = 0]
                       /\ userResult' = "Reset"
    /\ UNCHANGED <<dbVars, reqVars, statusVars, addVars, createVars, cartResult,
                   refused, limiterVars, forgotResponse>>

\* ------------------------------------------------------------ specifications
Quantities == (-1)..MaxQuantity

CartRequest == \E u \in Users, p \in Products, q \in 0..MaxQuantity : AddToCart(u, p, q)

CatalogRequest ==
    \/ \E p \in Products, price \in Prices : UpdateProduct(p, price)
    \/ \E p \in Products : DeleteProduct(p)

InventoryRequest ==
    \/ \E p \in Products, q \in Quantities : CreateInventory(p, q)
    \/ \E i \in 1..Cardinality(Products), p \in Products, q \in Quantities :
          UpdateInventory(i, p, q)
    \/ \E p \in Products, q \in Quantities : UpdateInventoryQuantity(p, q)

\* the requests of the set R, each at one of its awaits
OrderRequest(R) ==
    \/ \E r \in R : CreateOrderStep(r)
    \/ \E r \in R : DbError(r)

\* concurrent placements over the users' carts
NextOrders == OrderRequest(Requests) \/ CartRequest

SpecOrders == Init /\ [][NextOrders]_vars

\* concurrent placements, every database operation succeeding
NextPlacement == (\E r \in Requests : CreateOrderStep(r)) \/ CartRequest

SpecPlacement == Init /\ [][NextPlacement]_vars

\* one request at a time: a request is started only when none is in flight
Quiescent == \A r \in Requests : pc[r] \in {"idle", "done"}

SeqStep(r) ==
    \/ Quiescent /\ \E u \in Users : ReadCart(r, u)
    \/ CheckInventory(r)
    \/ CreateOrderEntry(r)
    \/ SaveInventory(r)
    \/ ClearCart(r)
    \/ DbError(r)

NextSeq ==
    \/ SeqStep(1)
    \/ Quiescent /\ CartRequest
    \/ Quiescent /\ CatalogRequest
    \/ Quiescent /\ InventoryRequest

SpecSeq == Init /\ [][NextSeq]_vars

\* one placement interleaved with inventory administration
NextInventory == OrderRequest({1}) \/ CartRequest \/ InventoryRequest

SpecInventory == Init /\ [][NextInventory]_vars

\* one placement interleaved with catalog administration
NextCatalog == OrderRequest({1}) \/ CartRequest \/ CatalogRequest

SpecCatalog == Init /\ [][NextCatalog]_vars

CreateInventoryStep(a) ==
    \/ \E p \in Products, q \in Quantities : FindExistingInventory(a, p, q)
    \/ CreateInventoryEntry(a)

\* concurrent inventory administration over a changing catalog
NextUnique ==
    \/ \E a \in CreateRequests : CreateInventoryStep(a)
    \/ \E i \in 1..Cardinality(Products), p \in Products, q \in Quantities :
          UpdateInventory(i, p, q)
    \/ \E p \in Products, q \in Quantities : UpdateInventoryQuantity(p, q)
    \/ \E p \in Products : DeleteProduct(p)

SpecUnique == Init /\ [][NextUnique]_vars

\* concurrent additions to the carts, no other cart operation
NextCart == \E c \in AddRequests : AddToCartStep(c)

SpecCart == Init /\ [][NextCart]_vars

CartItemRequest ==
    \/ \E u \in Users, id \in 0..MaxCartLines, q \in Quantities : UpdateCartItem(u, id, q)
    \/ \E u \in Users, id \in 0..MaxCartLines : RemoveFromCart(u, id)
    \/ \E u \in Users : ClearCartHandler(u)

\* one placement interleaved with every cart operation of the users
NextOwner == OrderRequest({1}) \/ CartRequest \/ CartItemRequest

SpecOwner == Init /\ [][NextOwner]_vars

\* the admin-only endpoints called with the role of the caller's token, over
\* the products P, the quantities Q and the statuses S
AdminRequest(role, P, Q, S) ==
    \/ \E p \in P, price \in Prices : CreateProductRequest(role, p, price)
    \/ \E p \in P, price \in Prices : UpdateProductRequest(role, p, price)
    \/ \E p \in P : DeleteProductRequest(role, p)
    \/ GetAllInventory(role)
    \/ \E p \in P, q \in Q : CreateInventoryRequest(role, p, q)
    \/ \E i \in 1..Cardinality(Products), p \in P, q \in Q :
          UpdateInventoryRequest(role, i, p, q)
    \/ \E p \in P, q \in Q : UpdateInventoryQuantityRequest(role, p, q)
    \/ GetAllOrders(role)
    \/ \E id \in 0..(Len(orders) + 1), status \in S :
          UpdateOrderStatus(role, id, status)

\* the admin-only endpoints called by admins and by other users, beside one
\* placement of one cart line
NextGate ==
    \/ \E role \in Roles : AdminRequest(role, {"pB"}, {1}, {"cancelled", "refunded"})
    \/ AddToCart("u1", "pA", 1)
    \/ OrderRequest({1})

SpecGate == Init /\ [][NextGate]_vars

\* concurrent additions beside updates of the lines' quantities
NextQuantity ==
    \/ \E c \in AddRequests : AddToCartStep(c)
    \/ \E u \in Users, id \in 0..MaxCartLines, q \in Quantities : UpdateCartItem(u, id, q)

SpecQuantity == Init /\ [][NextQuantity]_vars

\* the limiter alone, called for requests of several IPs as time passes
NextLimiter == Tick \/ \E ip \in Ips : RateLimiter(ip)

SpecLimiter == Init /\ [][NextLimiter]_vars

\* requests arriving at the server as time passes
NextServer == Tick \/ \E ip \in Ips : AppRequest(ip)

SpecServer == Init /\ [][NextServer]_vars

\* placements one at a time, every database operation succeeding, over carts
\* filled by concurrent additions
SeqPlacementStep(r) ==
    \/ Quiescent /\ \E u \in Users : ReadCart(r, u)
    \/ CheckInventory(r)
    \/ CreateOrderEntry(r)
    \/ SaveInventory(r)
    \/ ClearCart(r)

NextDuplicate ==
    \/ \E r \in Requests : SeqPlacementStep(r)
    \/ \E c \in AddRequests : AddToCartStep(c)

SpecDuplicate == Init /\ [][NextDuplicate]_vars

UserRequest ==
    \/ \E email \in EmailInputs, password \in Passwords : Register(email, password)
    \/ \E email \in EmailInputs, resetToken \in Tokens : ForgotPassword(email, resetToken)
    \/ \E email \in EmailInputs : ForgotPasswordError(email)
    \/ \E token \in Tokens \cup {NoToken}, password \in Passwords \cup {NoPassword} :
          ResetPassword(token, password)

\* the account endpoints as time passes
NextForgot == Tick \/ UserRequest

SpecForgot == Init /\ [][NextForgot]_vars

StatusRequest ==
    \E role \in Roles, id \in 0..(Len(orders) + 1), status \in StatusInputs :
        UpdateOrderStatus(role, id, status)

\* one placement interleaved with status updates
NextStatus == OrderRequest({1}) \/ CartRequest \/ StatusRequest

SpecStatus == Init /\ [][NextStatus]_vars

Next ==
    \/ OrderRequest(Requests)
    \/ CartRequest
    \/ CatalogRequest
    \/ InventoryRequest
    \/ StatusRequest
    \/ \E a \in CreateRequests : CreateInventoryStep(a)
    \/ \E c \in AddRequests : AddToCartStep(c)
    \/ CartItemRequest
    \/ \E role \in Roles : AdminRequest(role, Products, Quantities, StatusInputs)
    \/ Tick
    \/ \E ip \in Ips : AppRequest(ip)
    \/ UserRequest

Spec == Init /\ [][Next]_vars

\* ------------------------------------------------------------------ claims
RECURSIVE SumOrdered(_, _)
\* total quantity of the first n orders placed for product p
SumOrdered(p, n) ==
    IF n = 0 THEN 0
    ELSE SumOrdered(p, n - 1) + (IF orders[n].productId = p THEN orders[n].quantity ELSE 0)

\* quantity of the product's inventory record, 0 without a record
StockOf(p) == IF FindInventory(p) = 0 THEN 0 ELSE inventory[FindInventory(p)].quantity

\* C1: no overselling. With no inventory administration, the quantities of
\* the orders created for a product never add up to more than the quantity
\* its inventory record started with, however the placements interleave.
NoOverselling == \A p \in Products : SumOrdered(p, Len(orders)) <= InitialStock[p]

\* C2: all-or-nothing placement. A placement that answers InsufficientStock
\* has created no order (and so has debited no inventory).
AllOrNothing ==
    [][\A r \in Requests :
          (result[r] = "none" /\ result'[r] = "InsufficientStock")
              => createdOrders[r] = <<>>]_vars

\* C3: no lost inventory updates. With no inventory administration and no
\* placement in flight, each product's stock is what it started with minus
\* the quantities of all orders created for it.
NoLostUpdate ==
    Quiescent => \A p \in Products : StockOf(p) = InitialStock[p] - SumOrdered(p, Len(orders))

FailureKeepsCart ==
    [][\A r \in Requests :
          (pc'[r] # pc[r] /\ result'[r] # "Created") => cart' = cart]_vars

\* a placement has answered InsufficientStock after ordering an earlier line
\* and its user's cart still holds every line
FailureKeepsCartWitness ==
    \E r \in Requests :
        /\ result[r] = "InsufficientStock"
        /\ Len(UserCart(reqUser[r])) = MaxCartLines
        /\ \E i \in 1..Len(orders) : orders[i].userId = reqUser[r]

\* C6: a successful placement empties the cart. In the state in which a
\* placement has answered 201 its user has no cart line.
SuccessEmptiesCart ==
    [][\A r \in Requests :
          (result[r] = "none" /\ result'[r] = "Created") => UserCart(reqUser[r])' = <<>>]_vars

\* a placement has answered 201 after creating an order and the user's cart
\* is empty
SuccessEmptiesCartWitness ==
    \E r \in Requests :
        /\ result[r] = "Created"
        /\ UserCart(reqUser[r]) = <<>>
        /\ \E i \in 1..Len(orders) : orders[i].userId = reqUser[r]

\* C7: a placement started on an empty cart answers EmptyCart at once and
\* changes neither the orders nor the inventory.
EmptyCartRejected ==
    [][\A r \in Requests :
          (pc[r] = "idle" /\ pc'[r] # "idle" /\ UserCart(reqUser'[r]) = <<>>)
              => (result'[r] = "EmptyCart" /\ orders' = orders /\ inventory' = inventory
                  /\ cart' = cart)]_vars

\* a placement has answered EmptyCart
EmptyCartRejectedWitness ==
    \E r \in Requests : result[r] = "EmptyCart" /\ UserCart(reqUser[r]) = <<>>

\* C8: result of a successful placement. With one request at a time, a
\* placement that answers 201 has created exactly one order per surviving
\* cart line, with the line's product and quantity, totalPrice = price *
\* quantity and status pending; and each save lowers the stock of the line's
\* product by exactly the line's quantity and no other stock.
SurvivingItems(r) == SelectSeq(cartItems[r], LAMBDA item : item.product.exists)

ExpectedOrder(u, item) ==
    [userId |-> u, productId |-> item.productId, quantity |-> item.quantity,
     totalPrice |-> products[item.productId].price * item.quantity,
     status |-> "pending"]

PlacementResult ==
    [][\A r \in Requests :
          /\ (result[r] = "none" /\ result'[r] = "Created") =>
                /\ Len(createdOrders[r]) = Len(SurvivingItems(r))
                /\ \A k \in 1..Len(createdOrders[r]) :
                      /\ createdOrders[r][k] \in 1..Len(orders)
                      /\ orders[createdOrders[r][k]] = ExpectedOrder(reqUser[r], SurvivingItems(r)[k])
                      /\ \A j \in 1..(k - 1) : createdOrders[r][j] # createdOrders[r][k]
          /\ (pc[r] = "save" /\ pc'[r] \in {"check", "clear"}) =>
                \A p \in Products :
                    StockOf(p)' = StockOf(p) - (IF p = cartItems[r][idx[r]].productId
                                                THEN cartItems[r][idx[r]].quantity ELSE 0)]_vars

\* a placement of two lines, one of quantity 2, has answered 201
PlacementResultWitness ==
    \E r \in Requests :
        /\ result[r] = "Created"
        /\ Len(orders) = 2
        /\ \A i \in 1..Len(orders) : orders[i].userId = reqUser[r]
        /\ orders[1].productId # orders[2].productId
        /\ \E i \in 1..Len(orders) : orders[i].quantity = 2 /\ orders[i].totalPrice = 6

\* C9: price freeze. No step changes the totalPrice of an existing order or
\* removes the order, whatever happens to the product afterwards.
PriceFreeze ==
    [][\A i \in 1..Len(orders) :
          i <= Len(orders') /\ orders'[i].totalPrice = orders[i].totalPrice]_vars

\* an order whose product has since been repriced or deleted
PriceFreezeWitness ==
    \E i \in 1..Len(orders) :
        orders[i].totalPrice # products[orders[i].productId].price * orders[i].quantity

\* C10: no decrement without an order. When a placement writes a decrement,
\* the order it stands for is already stored, with the placement's user, the
\* line's product and the line's quantity, and is the order of no earlier
\* decrement; no other step changes a stock, and stored orders stay.
MatchingOrder(r) ==
    /\ order[r] \in 1..Len(orders)
    /\ orders[order[r]].userId = reqUser[r]
    /\ orders[order[r]].productId = cartItems[r][idx[r]].productId
    /\ orders[order[r]].quantity = cartItems[r][idx[r]].quantity
    /\ \A r2 \in Requests : \A k \in 1..Len(createdOrders[r2]) : createdOrders[r2][k] # order[r]

DecrementHasOrder ==
    [][/\ \A r \in Requests :
             (pc[r] = "save" /\ pc'[r] \in {"check", "clear"}) => MatchingOrder(r)
       /\ inventory' # inventory =>
             \E r \in Requests : pc[r] = "save" /\ pc'[r] \in {"check", "clear"}
       /\ \A i \in 1..Len(orders) :
             /\ i <= Len(orders')
             /\ orders'[i].userId = orders[i].userId
             /\ orders'[i].productId = orders[i].productId
             /\ orders'[i].quantity = orders[i].quantity]_vars

\* a placement has failed after debiting the stock for an earlier line, and
\* the order of that line is stored
DecrementHasOrderWitness ==
    \E r \in Requests :
        /\ IsFailure(result[r])
        /\ StockOf("pA") < InitialStock["pA"]
        /\ \E i \in 1..Len(orders) : orders[i].userId = reqUser[r] /\ orders[i].productId = "pA"

\* C11: a cart whose lines are all stale is an empty cart. A placement that
\* read a cart with no surviving line never answers 201.
StaleCartIsEmptyCart ==
    [][\A r \in Requests :
          (result[r] = "none" /\ result'[r] = "Created") => SurvivingItems(r) # <<>>]_vars

\* C12: stale cart lines are skipped silently. A placement checks inventory,
\* creates an order and saves inventory only at a line whose product was
\* found; the loop passes over stale lines only, so every other line is
\* processed; reading a cart that has lines never ends the request; and an
\* order is only ever stored for, and a stock only ever written at, the
\* surviving line some request stands at.
AtSurvivingLine(r) ==
    /\ idx[r] \in 1..Len(cartItems[r])
    /\ cartItems[r][idx[r]].product.exists

SkipsStaleLines ==
    [][/\ \A r \in Requests :
             /\ pc'[r] \in {"check", "create", "save"} => AtSurvivingLine(r)'
             /\ (pc[r] \in {"idle", "save"} /\ pc'[r] \in {"check", "clear"}) =>
                   \A k \in 1..Len(cartItems'[r]) :
                       ((IF pc[r] = "idle" THEN 0 ELSE idx[r]) < k /\ k < idx'[r])
                           => ~cartItems'[r][k].product.exists
             /\ (pc[r] = "idle" /\ pc'[r] = "done") => UserCart(reqUser'[r]) = <<>>
       /\ orders' # orders =>
             \E r \in Requests :
                 /\ pc[r] = "create" /\ AtSurvivingLine(r)
                 /\ Len(orders') = Len(orders) + 1
                 /\ orders'[Len(orders')].userId = reqUser[r]
                 /\ orders'[Len(orders')].productId = cartItems[r][idx[r]].productId
                 /\ \A i \in 1..Len(orders) : orders'[i] = orders[i]
       /\ inventory' # inventory =>
             \E r \in Requests :
                 /\ pc[r] = "save" /\ AtSurvivingLine(r)
                 /\ inventory[invDoc[r].id].productId = cartItems[r][idx[r]].productId]_vars

\* a placement has passed over a stale first line, ordered the second line
\* and is about to clear the cart
SkipsStaleLinesWitness ==
    \E r \in Requests :
        /\ pc[r] = "clear"
        /\ Len(cartItems[r]) = 2
        /\ ~cartItems[r][1].product.exists
        /\ Len(createdOrders[r]) = 1

\* C13: fail-fast on insufficient stock. A check that finds no record, or a
\* record with less than the line's quantity, answers InsufficientStock with
\* the quantity available (0 without a record) and the quantity requested,
\* changes neither orders nor inventory, and ends the request: a request that
\* has answered takes no further step, and orders and stock are only written
\* by requests still in their loop.
FailFast ==
    [][/\ \A r \in Requests :
             /\ (/\ pc[r] = "check" /\ pc'[r] # "check" /\ result'[r] # "ServerError"
                 /\ StockOf(cartItems[r][idx[r]].productId) < cartItems[r][idx[r]].quantity)
                   => /\ result'[r] = "InsufficientStock"
                      /\ reported'[r] = [productId |-> cartItems[r][idx[r]].productId,
                                         available |-> StockOf(cartItems[r][idx[r]].productId),
                                         requested |-> cartItems[r][idx[r]].quantity]
                      /\ pc'[r] = "done"
                      /\ orders' = orders /\ inventory' = inventory
             /\ pc[r] = "done" => (pc'[r] = "done" /\ result'[r] = result[r])
       /\ orders' # orders => \E r \in Requests : pc[r] = "create"
       /\ inventory' # inventory => \E r \in Requests : pc[r] = "save"]_vars

\* a placement has answered InsufficientStock at a first line whose product
\* has no record, while the stock of its second line was sufficient: no order
\* exists and the stock is untouched
FailFastWitness ==
    \E r \in Requests :
        /\ result[r] = "InsufficientStock"
        /\ reported[r] = [productId |-> "pB", available |-> 0, requested |-> 1]
        /\ Len(UserCart(reqUser[r])) = 2
        /\ UserCart(reqUser[r])[1].productId = "pB"
        /\ UserCart(reqUser[r])[2].productId = "pA"
        /\ orders = <<>>
        /\ StockOf("pA") = InitialStock["pA"]

\* C14: order status stays in the enumeration. Every order's status is one of
\* the five values after every step, and an updateOrderStatus with a status
\* outside them, or with none, is rejected and leaves the orders as they
\* are: with 400 InvalidStatus when the caller is an admin and the id is
\* well-formed, with 403 or 400 InvalidId otherwise.
OrderStatuses == {"pending", "processing", "shipped", "delivered", "cancelled"}

StatusInEnumeration ==
    [][/\ \A i \in 1..Len(orders') : orders'[i].status \in OrderStatuses
       /\ \A role \in Roles, id \in 0..(Len(orders) + 1), status \in StatusInputs \ OrderStatuses :
             UpdateOrderStatus(role, id, status) =>
                 /\ orders' = orders
                 /\ statusResult' \in {"Forbidden", "InvalidId", "InvalidStatus"}
                 /\ (role = "admin" /\ id # MalformedId) => statusResult' = "InvalidStatus"
       /\ (statusResult' = "InvalidStatus" /\ statusResult # "InvalidStatus")
             => orders' = orders]_vars

\* an admin's update has been rejected as InvalidStatus while an order stands
\* at a status an earlier update gave it
StatusInEnumerationWitness ==
    /\ statusResult = "InvalidStatus"
    /\ statusCaller = "admin"
    /\ \E i \in 1..Len(orders) : orders[i].status = "cancelled"

\* C15: orders are immutable except for status. No step removes an order or
\* changes its userId, productId, quantity or totalPrice, and a step that
\* changes an order's status is an updateOrderStatus for that order whose
\* caller has the role admin.
OrdersImmutable ==
    [][\A i \in 1..Len(orders) :
          /\ i <= Len(orders')
          /\ orders'[i].userId = orders[i].userId
          /\ orders'[i].productId = orders[i].productId
          /\ orders'[i].quantity = orders[i].quantity
          /\ orders'[i].totalPrice = orders[i].totalPrice
          /\ orders'[i].status # orders[i].status =>
                /\ statusCaller' = "admin"
                /\ statusResult' = "Ok"
                /\ \E status \in OrderStatuses : UpdateOrderStatus(statusCaller', i, status)]_vars

\* a non-admin caller has been refused while an order stands at a status an
\* admin gave it
OrdersImmutableWitness ==
    /\ statusResult = "Forbidden"
    /\ statusCaller = "user"
    /\ \E i \in 1..Len(orders) : orders[i].status = "shipped"

\* C16: a failed cart clear is a warning, not a failure. A placement that
\* has created its orders and then ends at the clearing of the cart does not
\* answer with a failure.
ClearFailureIsWarning ==
    [][\A r \in Requests :
          (pc[r] = "clear" /\ createdOrders[r] # <<>> /\ pc'[r] = "done")
              => ~IsFailure(result'[r])]_vars

\* C17: a retry sees a smaller cart. When a placement stops with a failure
\* after committing some cart lines (order stored and stock debited), those
\* lines are no longer in the cart, so that a retry cannot order them again.
RetrySeesSmallerCart ==
    [][\A r \in Requests :
          (result[r] = "none" /\ IsFailure(result'[r])) =>
              \A k \in 1..Len(cartItems[r]) :
                  (k < idx[r] /\ cartItems[r][k].product.exists)
                      => ~\E j \in 1..Len(cart') : cart'[j].id = cartItems[r][k].id]_vars

\* C18: inventory uniqueness. In every reachable state no two inventory
\* records have the same productId, whatever the interleaving of concurrent
\* creations and of updates that move a record to another product.
InventoryUnique ==
    \A i, j \in 1..Len(inventory) :
        inventory[i].productId = inventory[j].productId => i = j

\* of two creations that both found no record, one has been refused by the
\* unique index, and each product has its record
InventoryUniqueWitness ==
    /\ \E a \in CreateRequests : createPc[a] = "duplicate"
    /\ Len(inventory) = Cardinality(Products)

\* C19: cart line uniqueness. In every reachable state a user has at most
\* one cart line per product, also when additions run concurrently.
CartLineUnique ==
    \A i, j \in 1..Len(cart) :
        (cart[i].userId = cart[j].userId /\ cart[i].productId = cart[j].productId) => i = j

RECURSIVE CartQuantity(_, _, _, _)
\* total quantity of product p in the lines of user u among the first n
\* lines of the Cart collection lines
CartQuantity(lines, u, p, n) ==
    IF n = 0 THEN 0
    ELSE CartQuantity(lines, u, p, n - 1)
         + (IF lines[n].userId = u /\ lines[n].productId = p THEN lines[n].quantity ELSE 0)

\* C20: addToCart merges by adding. The write of every successful addToCart
\* raises the user's total cart quantity of the product by exactly the
\* quantity added, so that the total after any set of additions is the
\* previous total plus the sum of the quantities added.
MergeAdds ==
    [][\A c \in AddRequests :
          (addPc[c] \in {"save", "create"} /\ addPc'[c] = "ok") =>
              CartQuantity(cart', addData[c].userId, addData[c].productId, Len(cart'))
                  = CartQuantity(cart, addData[c].userId, addData[c].productId, Len(cart))
                    + addData[c].quantity]_vars

\* C21: cart ownership. A cart operation issued by user u (addToCart,
\* updateCartItem, removeFromCart, clearCart, the cart clear of a placement
\* of u) leaves the lines of every other user as they are; every change of
\* the Cart collection is such an operation; and updateCartItem and
\* removeFromCart aimed at a line of another user answer 404 and change
\* nothing.
OtherLines(lines, u) == SelectSeq(lines, LAMBDA line : line.userId # u)

ForeignLine(u, id) == \E k \in 1..Len(cart) : cart[k].id = id /\ cart[k].userId # u

CartOperationOf(u) ==
    \/ \E p \in Products, q \in Quantities : AddToCart(u, p, q)
    \/ \E id \in 0..MaxCartLines, q \in Quantities : UpdateCartItem(u, id, q)
    \/ \E id \in 0..MaxCartLines : RemoveFromCart(u, id)
    \/ ClearCartHandler(u)
    \/ \E r \in Requests : reqUser[r] = u /\ ClearCart(r)

CartOwnership ==
    [][/\ \A u \in Users : CartOperationOf(u) => OtherLines(cart', u) = OtherLines(cart, u)
       /\ cart' # cart => \E u \in Users : CartOperationOf(u)
       /\ \A u \in Users, id \in 1..MaxCartLines :
             (ForeignLine(u, id)
              /\ (RemoveFromCart(u, id) \/ \E q \in 1..MaxQuantity : UpdateCartItem(u, id, q)))
                 => (cartResult' = "NotFound" /\ cart' = cart)]_vars

\* a user has been answered 404 for a line of the other user, which stands
\* beside a line of their own
CartOwnershipWitness ==
    /\ cartResult = "NotFound"
    /\ Len(cart) = 2
    /\ cart[1].userId # cart[2].userId

\* C22: admin gating. A call of an admin-only handler by a caller whose role
\* is not admin is answered 403 by that handler and leaves products,
\* inventory and orders as they are.
RefusedBy(op) ==
    /\ refused' = op
    /\ products' = products /\ inventory' = inventory /\ orders' = orders

AdminGating ==
    [][\A role \in Roles \ {"admin"} :
          /\ \A p \in Products, price \in Prices :
                /\ CreateProductRequest(role, p, price) => RefusedBy("createProduct")
                /\ UpdateProductRequest(role, p, price) => RefusedBy("updateProduct")
          /\ \A p \in Products : DeleteProductRequest(role, p) => RefusedBy("deleteProduct")
          /\ GetAllInventory(role) => RefusedBy("getAllInventory")
          /\ \A p \in Products, q \in Quantities :
                /\ CreateInventoryRequest(role, p, q) => RefusedBy("createInventory")
                /\ UpdateInventoryQuantityRequest(role, p, q)
                      => RefusedBy("updateInventoryQuantity")
                /\ \A i \in 1..Cardinality(Products) :
                      UpdateInventoryRequest(role, i, p, q) => RefusedBy("updateInventory")
          /\ GetAllOrders(role) => RefusedBy("getAllOrders")
          /\ \A id \in 0..(Len(orders) + 1), status \in StatusInputs :
                UpdateOrderStatus(role, id, status) =>
                    /\ statusResult' = "Forbidden"
                    /\ products' = products /\ inventory' = inventory /\ orders' = orders]_vars

\* a non-admin has been refused by updateProduct and by updateOrderStatus
\* while an order exists and the admin has restocked and repriced
AdminGatingWitness ==
    /\ refused = "updateProduct"
    /\ statusResult = "Forbidden"
    /\ Len(orders) > 0
    /\ Len(inventory) = Cardinality(Products)
    /\ products["pB"].price # InitialPrice["pB"]

\* C24: cart quantity lower bound. After every step of addToCart and
\* updateCartItem every cart line has a quantity of at least 1, and a request
\* of either with a quantity below 1 is answered 400 and leaves the cart as
\* it is.
CartQuantityAtLeastOne ==
    [][/\ \A k \in 1..Len(cart') : cart'[k].quantity >= 1
       /\ \A u \in Users, q \in (-1)..0 :
             /\ \A c \in AddRequests, p \in Products :
                   FindCartItem(c, u, p, q) => (addPc'[c] = "rejected" /\ cart' = cart)
             /\ \A id \in 1..MaxCartLines :
                   UpdateCartItem(u, id, q) => (cartResult' = "BadQuantity" /\ cart' = cart)]_vars

\* an update with a quantity below 1 has been answered 400 while a line
\* stands at a quantity that an addition merged into it
CartQuantityAtLeastOneWitness ==
    /\ cartResult = "BadQuantity"
    /\ \E c \in AddRequests : addPc[c] = "rejected"
    /\ \E k \in 1..Len(cart) : cart[k].quantity = MaxQuantity

\* C23: rate limiting is applied to all endpoints. Every request that the
\* server passes on to a handler has gone through the limiter, which counted
\* it in the entry of its IP.
AllRequestsLimited ==
    [][\A ip \in Ips :
          admitted'[ip] # admitted[ip] => requestCounts'[ip] # requestCounts[ip]]_vars

\* C28: the limiter's window. For a request of an IP without an entry, or
\* arriving more than windowMs after the entry's resetTime, the limiter
\* starts a window (count 1, resetTime now) and admits the request;
\* otherwise it keeps the window, raises the count by one and admits the
\* request exactly when the new count is at most maxRequests; the entries of
\* other IPs stay; and the requests admitted since the start of an IP's
\* window never number more than maxRequests.
AdmittedSince(log, t) == Cardinality({i \in 1..Len(log) : log[i] >= t})

RateLimiterWindow ==
    [][\A ip \in Ips :
          /\ RateLimiter(ip) =>
                /\ \A other \in Ips \ {ip} :
                      /\ requestCounts'[other] = requestCounts[other]
                      /\ admitted'[other] = admitted[other]
                /\ IF requestCounts[ip] = NoEntry
                      \/ now - requestCounts[ip].resetTime > WindowMs
                   THEN /\ requestCounts'[ip] = [count |-> 1, resetTime |-> now]
                        /\ admitted'[ip] = Append(admitted[ip], now)
                   ELSE /\ requestCounts'[ip].resetTime = requestCounts[ip].resetTime
                        /\ requestCounts'[ip].count = requestCounts[ip].count + 1
                        /\ admitted'[ip] =
                              IF requestCounts[ip].count + 1 <= MaxRequests
                              THEN Append(admitted[ip], now) ELSE admitted[ip]
          /\ requestCounts'[ip] # NoEntry =>
                AdmittedSince(admitted'[ip], requestCounts'[ip].resetTime) <= MaxRequests]_vars

\* one IP has been answered 429 in its window, another is in its second
\* window after a full first one
RateLimiterWindowWitness ==
    \E ip1, ip2 \in Ips :
        /\ requestCounts[ip1].count > MaxRequests
        /\ Len(admitted[ip1]) = MaxRequests
        /\ requestCounts[ip2].resetTime > 0
        /\ Len(admitted[ip2]) > MaxRequests

\* C25: several lines for one product. With one placement at a time and no
\* inventory administration, a line passes the check exactly when its
\* quantity is at most what the stock started with minus everything ordered
\* so far, the earlier lines of the same call included; so the orders of a
\* product never add up to more than its stock, and between two lines the
\* stock is what it started with minus the quantities ordered, never below 0.
Remaining(p) == InitialStock[p] - SumOrdered(p, Len(orders))

DuplicateLinesDefensive ==
    [][/\ \A r \in Requests :
             /\ (pc[r] = "check" /\ pc'[r] = "create") =>
                   cartItems[r][idx[r]].quantity <= Remaining(cartItems[r][idx[r]].productId)
             /\ (pc[r] = "check" /\ pc'[r] = "done") =>
                   cartItems[r][idx[r]].quantity > Remaining(cartItems[r][idx[r]].productId)
       /\ \A p \in Products :
             /\ Remaining(p)' >= 0
             /\ (\A r \in Requests : pc'[r] # "save") => StockOf(p)' = Remaining(p)']_vars

\* one placement has ordered two lines of the same product and is about to
\* clear the cart, the stock being used up
DuplicateLinesDefensiveWitness ==
    \E r \in Requests :
        /\ pc[r] = "clear"
        /\ Len(cartItems[r]) = 2
        /\ cartItems[r][1].productId = cartItems[r][2].productId
        /\ Len(createdOrders[r]) = 2
        /\ StockOf(cartItems[r][1].productId) = 0

\* C26: double submit. The cart lines for which the placement r has stored an
\* order so far; two placements in flight never have a cart line in common
\* among them.
OrderedLines(r) ==
    {cartItems[r][k].id : k \in {j \in 1..Len(cartItems[r]) :
        /\ cartItems[r][j].product.exists
        /\ \/ j < idx[r]
           \/ j = idx[r] /\ pc[r] = "save"}}

AtMostOneOrderPerLine ==
    \A r1, r2 \in Requests :
        r1 # r2 => OrderedLines(r1) \cap OrderedLines(r2) = {}

\* C27: no cart line lost at checkout. When a placement clears the cart and
\* answers 201, every line of the user in the cart is a line the placement
\* read, with the quantity it read: ordered by it, or skipped for its missing
\* product.
NoCartLineLost ==
    [][\A r \in Requests :
          (pc[r] = "clear" /\ pc'[r] = "done" /\ result'[r] = "Created") =>
              \A k \in 1..Len(cart) :
                  IsUserLine(reqUser[r], cart[k]) =>
                      \E j \in 1..Len(cartItems[r]) :
                          /\ cartItems[r][j].id = cart[k].id
                          /\ cartItems[r][j].quantity = cart[k].quantity]_vars

\* C29: forgotPassword does not reveal whether an account exists. The
\* response to a request for an email is the response the same request gets
\* in the state that differs only in that no user has this email.
AccountNotRevealed ==
    [][\A email \in EmailInputs \ {NoEmail}, resetToken \in Tokens :
          ForgotPassword(email, resetToken) =>
              forgotResponse' = ForgotPasswordResponse(NoUser, resetToken)]_vars

\* C30: status updates never touch stock. A call of updateOrderStatus, for
\* every caller, id and status, leaves the Inventory collection as it was, and
\* so does every step that changes the status of a stored order; a cancelled
\* order's quantity stays deducted.
StatusLeavesStock ==
    [][/\ \A role \in Roles, id \in 0..(Len(orders) + 1), status \in StatusInputs :
             UpdateOrderStatus(role, id, status) => inventory' = inventory
       /\ (\E id \in 1..Len(orders) : orders'[id].status # orders[id].status) =>
             inventory' = inventory]_vars

\* an order has just been cancelled and the stock still lacks its quantity
StatusLeavesStockWitness ==
    /\ statusResult = "Ok"
    /\ \E id \in 1..Len(orders) :
          /\ orders[id].status = "cancelled"
          /\ StockOf(orders[id].productId) =
                InitialStock[orders[id].productId]
                    - SumOrdered(orders[id].productId, Len(orders))

====
